---- MODULE Spec2Model ----
(***************************************************************************)
(* Model of the Netlify Blobs client of netlify/go-functions/go.go (the    *)
(* variant with the implemented GetFinalRequest / MakeRequest / Store.Get, *)
(* source lines 118-752).                                                  *)
(*                                                                         *)
(* A Go string is a sequence of bytes; it is modelled as a sequence of     *)
(* one-byte tokens.  An ASCII byte is the one-character string of that     *)
(* byte; a byte of a multi-byte UTF-8 character is written "xHH" (the two  *)
(* bytes of U+00E9 are "xC3" and "xA9").  Len of the sequence is Go's len. *)
(***************************************************************************)
EXTENDS Integers, Sequences, FiniteSets, TLC

VARIABLES client, storeArg, store, storeErr, call, exited

vars == <<client, storeArg, store, storeErr, call, exited>>

(***************************************************************************)
(* strings                                                                 *)
(***************************************************************************)

Upper == <<"A","B","C","D","E","F","G","H","I","J","K","L","M",
           "N","O","P","Q","R","S","T","U","V","W","X","Y","Z">>

Lower == <<"a","b","c","d","e","f","g","h","i","j","k","l","m",
           "n","o","p","q","r","s","t","u","v","w","x","y","z">>

Digits == {"0","1","2","3","4","5","6","7","8","9"}

IsUpper(c) == c \in {Upper[i] : i \in 1..26}

IsLower(c) == c \in {Lower[i] : i \in 1..26}

ToUpper(c) == IF IsLower(c) THEN Upper[CHOOSE i \in 1..26 : Lower[i] = c] ELSE c

ToLower(c) == IF IsUpper(c) THEN Lower[CHOOSE i \in 1..26 : Upper[i] = c] ELSE c

\* strings.Repeat
Repeat(s, n) ==
    IF n <= 0 THEN <<>> ELSE [i \in 1..(n * Len(s)) |-> s[((i - 1) % Len(s)) + 1]]

\* strings.HasPrefix
HasPrefix(s, p) == Len(s) >= Len(p) /\ SubSeq(s, 1, Len(p)) = p

\* strings.Contains
Contains(s, sub) ==
    \E i \in 1..(Len(s) - Len(sub) + 1) : SubSeq(s, i, i + Len(sub) - 1) = sub

\* strings.IndexByte, 1-based; 0 when the byte does not occur
IndexByte(s, c) ==
    LET at == {i \in 1..Len(s) : s[i] = c}
    IN IF at = {} THEN 0 ELSE CHOOSE i \in at : \A j \in at : i <= j

\* strings.Cut: <<before, after>>; after is empty when sep does not occur
Cut(s, c) ==
    LET i == IndexByte(s, c)
    IN IF i = 0 THEN <<s, <<>>>>
       ELSE <<SubSeq(s, 1, i - 1), SubSeq(s, i + 1, Len(s))>>

\* a continuation byte of a multi-byte UTF-8 character (10xxxxxx)
IsContinuationByte(c) == c \in {"xA9"}

\* utf8.RuneCountInString: the number of characters, not of bytes
RuneCount(s) == Cardinality({i \in 1..Len(s) : ~IsContinuationByte(s[i])})

RECURSIVE Join(_, _)
Join(parts, sep) ==
    IF Len(parts) = 0 THEN <<>>
    ELSE IF Len(parts) = 1 THEN parts[1]
    ELSE parts[1] \o sep \o Join(Tail(parts), sep)

(***************************************************************************)
(* net/url, as far as GetFinalRequest uses it (go.go lines 315-340)        *)
(***************************************************************************)

\* byte order of the bytes the model uses (ASCII order, then the high bytes)
ByteOrder == <<" ", "#", "%", "&", "+", "-", ".", "/",
               "0","1","2","3","4","5","6","7","8","9", ":", "=", "?">>
             \o Upper \o <<"_">> \o Lower \o <<"xA9", "xC3">>

Ord(c) == CHOOSE i \in 1..Len(ByteOrder) : ByteOrder[i] = c

\* s < t as Go compares strings (bytewise)
RECURSIVE StrLess(_, _)
StrLess(s, t) ==
    IF Len(t) = 0 THEN FALSE
    ELSE IF Len(s) = 0 THEN TRUE
    ELSE IF s[1] = t[1] THEN StrLess(Tail(s), Tail(t))
    ELSE Ord(s[1]) < Ord(t[1])

\* url.ishex
IsHex(c) == c \in Digits \/ c \in {"A","B","C","D","E","F","a","b","c","d","e","f"}

\* the two upper-case hex digits of a byte ("%XX" is how url.escape writes it)
HexOf(c) ==
    CASE c = " "   -> <<"2","0">>
      [] c = "#"   -> <<"2","3">>
      [] c = "%"   -> <<"2","5">>
      [] c = "&"   -> <<"2","6">>
      [] c = "+"   -> <<"2","B">>
      [] c = "/"   -> <<"2","F">>
      [] c = ":"   -> <<"3","A">>
      [] c = "="   -> <<"3","D">>
      [] c = "?"   -> <<"3","F">>
      [] c = "xA9" -> <<"A","9">>
      [] c = "xC3" -> <<"C","3">>
      [] OTHER     -> <<"0","0">>

\* the bytes of the model that url.escape can write as "%XX"
Escapable == {" ", "#", "%", "&", "+", "/", ":", "=", "?", "xA9", "xC3"}

\* the byte two hex digits stand for (url.unhex(a)<<4 | url.unhex(b))
UnHex(a, b) ==
    IF \E c \in Escapable : HexOf(c) = <<ToUpper(a), ToUpper(b)>>
    THEN CHOOSE c \in Escapable : HexOf(c) = <<ToUpper(a), ToUpper(b)>>
    ELSE "x" \o ToUpper(a) \o ToUpper(b)

IsUnreserved(c) == IsUpper(c) \/ IsLower(c) \/ c \in Digits \/ c \in {"-", "_", ".", "~"}

\* url.shouldEscape(c, mode) for the modes encodePath, encodeQueryComponent
\* and encodeFragment
shouldEscape(c, mode) ==
    IF IsUnreserved(c) THEN FALSE
    ELSE IF c \in {"$", "&", "+", ",", "/", ":", ";", "=", "?", "@"}
    THEN CASE mode = "path"     -> c = "?"
           [] mode = "query"    -> TRUE
           [] mode = "fragment" -> FALSE
    ELSE IF mode = "fragment" /\ c \in {"!", "(", ")", "*"} THEN FALSE
    ELSE TRUE

\* the concatenation of parts[lo], ..., parts[hi]
RECURSIVE Concat(_, _, _)
Concat(parts, lo, hi) ==
    IF lo > hi THEN <<>>
    ELSE IF lo = hi THEN parts[lo]
    ELSE Concat(parts, lo, (lo + hi) \div 2) \o Concat(parts, ((lo + hi) \div 2) + 1, hi)

\* url.escape: every byte that shouldEscape names is written "%XX" (a space
\* in a query component "+"), the others are copied
escape(s, mode) ==
    Concat([i \in 1..Len(s) |->
               IF ~shouldEscape(s[i], mode) THEN <<s[i]>>
               ELSE IF s[i] = " " /\ mode = "query" THEN <<"+">>
               ELSE <<"%">> \o HexOf(s[i])],
           1, Len(s))

\* the second pass of url.unescape over the positions kept of s (those that
\* are not the hex digits of a "%XX"): every "%XX" is replaced by its byte,
\* and in a query component every "+" by a space
unescapeKept(s, kept, mode) ==
    [j \in 1..Len(kept) |->
        IF s[kept[j]] = "%" THEN UnHex(s[kept[j] + 1], s[kept[j] + 2])
        ELSE IF s[kept[j]] = "+" /\ mode = "query" THEN " "
        ELSE s[kept[j]]]

\* url.unescape: [ok, s]; ok is FALSE on a "%" not followed by two hex digits
\* (EscapeError)
unescape(s, mode) ==
    IF \E i \in 1..Len(s) :
           s[i] = "%" /\ (i + 2 > Len(s) \/ ~IsHex(s[i + 1]) \/ ~IsHex(s[i + 2]))
    THEN [ok |-> FALSE, s |-> <<>>]
    ELSE [ok |-> TRUE,
          s  |-> unescapeKept(s,
                     SelectSeq([i \in 1..Len(s) |-> i],
                               LAMBDA i : /\ ~(i > 1 /\ s[i - 1] = "%")
                                          /\ ~(i > 2 /\ s[i - 2] = "%")),
                     mode)]

\* url.validEncoded(s, encodePath)
validEncoded(s, mode) ==
    \A i \in 1..Len(s) :
        \/ s[i] \in {"!", "$", "&", "'", "(", ")", "*", "+", ",", ";", "=", ":", "@",
                     "[", "]", "%"}
        \/ ~shouldEscape(s[i], mode)

\* URL.setPath once p is unescaped to path: RawPath is kept only when it is
\* not the default encoding of Path
setPathOf(p, path) ==
    IF ~path.ok THEN [ok |-> FALSE, Path |-> <<>>, RawPath |-> <<>>]
    ELSE [ok |-> TRUE, Path |-> path.s,
          RawPath |-> IF escape(path.s, "path") = p THEN <<>> ELSE p]

\* URL.setPath: [ok, Path, RawPath]
setPath(p) == setPathOf(p, unescape(p, "path"))

\* URL.EscapedPath
EscapedPath(u) ==
    IF /\ u.RawPath # <<>>
       /\ validEncoded(u.RawPath, "path")
       /\ unescape(u.RawPath, "path") = [ok |-> TRUE, s |-> u.Path]
    THEN u.RawPath
    ELSE escape(u.Path, "path")

\* url.getScheme: <<scheme, rest>>; a URL that starts with ":" is an error,
\* which no URL of the model does
RECURSIVE getSchemeAt(_, _)
getSchemeAt(rawURL, i) ==
    IF i > Len(rawURL) THEN <<<<>>, rawURL>>
    ELSE IF IsUpper(rawURL[i]) \/ IsLower(rawURL[i]) THEN getSchemeAt(rawURL, i + 1)
    ELSE IF rawURL[i] \in Digits \/ rawURL[i] \in {"+", "-", "."}
    THEN (IF i = 1 THEN <<<<>>, rawURL>> ELSE getSchemeAt(rawURL, i + 1))
    ELSE IF rawURL[i] = ":" /\ i > 1
    THEN <<SubSeq(rawURL, 1, i - 1), SubSeq(rawURL, i + 1, Len(rawURL))>>
    ELSE <<<<>>, rawURL>>

getScheme(rawURL) == getSchemeAt(rawURL, 1)

NoURL == [ok |-> FALSE, Scheme |-> <<>>, Host |-> <<>>, Path |-> <<>>, RawPath |-> <<>>,
          ForceQuery |-> FALSE, RawQuery |-> <<>>, Fragment |-> <<>>]

\* the last steps of url.parse: the path is set and the URL put together
parsePath(scheme, host, force, rawQuery, sp, frag) ==
    IF ~sp.ok \/ ~frag.ok THEN NoURL
    ELSE [ok |-> TRUE, Scheme |-> scheme, Host |-> host, Path |-> sp.Path,
          RawPath |-> sp.RawPath, ForceQuery |-> force, RawQuery |-> rawQuery,
          Fragment |-> frag.s]

\* the authority (what follows "//", here afterSl) up to the next "/" (at
\* iSl) is the host, what is left is the path
parseAuthority(scheme, afterSl, iSl, force, rawQuery, frag) ==
    parsePath(scheme,
              IF iSl = 0 THEN afterSl ELSE SubSeq(afterSl, 1, iSl - 1),
              force, rawQuery,
              setPath(IF iSl = 0 THEN <<>> ELSE SubSeq(afterSl, iSl, Len(afterSl))),
              frag)

\* url.parse on what is left (rest) after scheme, query and fragment
parseRest(scheme, rest, force, rawQuery, frag) ==
    IF ~HasPrefix(rest, <<"/">>) /\ scheme = <<>> /\ Contains(Cut(rest, "/")[1], <<":">>)
    THEN NoURL
    ELSE IF HasPrefix(rest, <<"/", "/">>)
            /\ (scheme # <<>> \/ ~HasPrefix(rest, <<"/", "/", "/">>))
    THEN parseAuthority(scheme, SubSeq(rest, 3, Len(rest)),
                        IndexByte(SubSeq(rest, 3, Len(rest)), "/"), force, rawQuery, frag)
    ELSE parsePath(scheme, <<>>, force, rawQuery, setPath(rest), frag)

\* the query is cut off: a single "?" at the very end only sets ForceQuery
parseQuery(scheme, rest, frag) ==
    IF Len(rest) > 0 /\ rest[Len(rest)] = "?"
       /\ Cardinality({i \in 1..Len(rest) : rest[i] = "?"}) = 1
    THEN parseRest(scheme, SubSeq(rest, 1, Len(rest) - 1), TRUE, <<>>, frag)
    ELSE parseRest(scheme, Cut(rest, "?")[1], FALSE, Cut(rest, "?")[2], frag)

\* the scheme is lower-cased
parseScheme(sch, frag) ==
    parseQuery([i \in 1..Len(sch[1]) |-> ToLower(sch[1][i])], sch[2], frag)

\* url.parse on what precedes the fragment; the fragment is unescaped
parseFragment(cutF) == parseScheme(getScheme(cutF[1]), unescape(cutF[2], "fragment"))

\* url.Parse: the fragment is cut off first, then url.parse(u, false) splits
\* scheme, query, authority and path.  ok is FALSE where Parse returns an
\* error: an invalid escape in the path or the fragment, or a first path
\* segment with a colon in a URL without scheme and leading slash.  The
\* authority is taken as the host (no userinfo, no port check).
Parse(rawURL) == parseFragment(Cut(rawURL, "#"))

\* strings.LastIndexByte, 1-based; 0 when the byte does not occur
LastIndexByte(s, c) ==
    LET at == {i \in 1..Len(s) : s[i] = c}
    IN IF at = {} THEN 0 ELSE CHOOSE i \in at : \A j \in at : i >= j

\* the loop of url.resolvePath over the "/"-separated elements of remaining:
\* dst is the builder (it starts as "/"), first says that nothing was written
\* after that slash; the result is <<dst, last element>>
\* one element elem of the loop of url.resolvePath, rem being what follows
\* it (found: something does); index is where the last "/" of the builder's
\* string is
RECURSIVE resolveLoop(_, _, _)
resolveElem(dst, first, found, elem, rem, index) ==
    IF elem = <<".">>
    THEN (IF found THEN resolveLoop(dst, FALSE, rem) ELSE <<dst, elem>>)
    ELSE IF elem = <<".", ".">>
    THEN (IF index = 0
          THEN (IF found THEN resolveLoop(<<"/">>, TRUE, rem) ELSE <<<<"/">>, elem>>)
          ELSE (IF found
                THEN resolveLoop(<<"/">> \o SubSeq(Tail(dst), 1, index - 1), first, rem)
                ELSE <<<<"/">> \o SubSeq(Tail(dst), 1, index - 1), elem>>))
    ELSE (IF found
          THEN resolveLoop((IF first THEN dst ELSE dst \o <<"/">>) \o elem, FALSE, rem)
          ELSE <<(IF first THEN dst ELSE dst \o <<"/">>) \o elem, elem>>)

\* strings.Cut(remaining, "/"), i being where the "/" is (0: nowhere)
resolveCut(dst, first, remaining, i) ==
    resolveElem(dst, first, i # 0,
                IF i # 0 THEN SubSeq(remaining, 1, i - 1) ELSE remaining,
                IF i # 0 THEN SubSeq(remaining, i + 1, Len(remaining)) ELSE <<>>,
                LastIndexByte(Tail(dst), "/"))

\* the loop of url.resolvePath from the state (dst, first, remaining)
resolveLoop(dst, first, remaining) ==
    resolveCut(dst, first, remaining, IndexByte(remaining, "/"))

\* the end of url.resolvePath: a last element "." or ".." leaves a trailing
\* slash
resolveEnd(loop) ==
    IF loop[2] \in {<<".">>, <<".", ".">>} THEN loop[1] \o <<"/">> ELSE loop[1]

\* the builder's leading slash is dropped when the path starts with its own
resolveTrim(r) == IF Len(r) > 1 /\ r[2] = "/" THEN Tail(r) ELSE r

\* url.resolvePath on the path full to clean
resolveFull(full) ==
    IF full = <<>> THEN <<>> ELSE resolveTrim(resolveEnd(resolveLoop(<<"/">>, TRUE, full)))

\* url.resolvePath(base, ref)
resolvePath(base, ref) ==
    resolveFull(IF ref = <<>> THEN base
                ELSE IF ref[1] # "/" THEN SubSeq(base, 1, LastIndexByte(base, "/")) \o ref
                ELSE ref)

\* the URL ResolveReference returns, sp being the resolved path and inherit
\* saying that the reference is empty up to its fragment
resolveWith(u, ref, sp, inherit) ==
    [ok |-> TRUE, Scheme |-> u.Scheme, Host |-> u.Host, Path |-> sp.Path,
     RawPath |-> sp.RawPath, ForceQuery |-> ref.ForceQuery,
     RawQuery |-> IF inherit THEN u.RawQuery ELSE ref.RawQuery,
     Fragment |-> IF inherit /\ ref.Fragment = <<>> THEN u.Fragment ELSE ref.Fragment]

\* URL.ResolveReference for a reference without scheme and host, the only
\* kind GetFinalRequest resolves.  setPath cannot fail here: its argument is
\* made of escaped paths that parsed.
ResolveReference(u, ref) ==
    resolveWith(u, ref, setPath(resolvePath(EscapedPath(u), EscapedPath(ref))),
                ref.Path = <<>> /\ ~ref.ForceQuery /\ ref.RawQuery = <<>>)

\* URL.String, path being u.EscapedPath()
stringWith(u, path) ==
    (IF u.Scheme # <<>> THEN u.Scheme \o <<":">> ELSE <<>>)
    \o (IF (u.Scheme # <<>> \/ u.Host # <<>>) /\ (u.Host # <<>> \/ u.Path # <<>>)
        THEN <<"/", "/">> ELSE <<>>)
    \o u.Host
    \o (IF path # <<>> /\ path[1] # "/" /\ u.Host # <<>> THEN <<"/">> ELSE <<>>)
    \o path
    \o (IF u.ForceQuery \/ u.RawQuery # <<>> THEN <<"?">> \o u.RawQuery ELSE <<>>)
    \o (IF u.Fragment # <<>> THEN <<"#">> \o escape(u.Fragment, "fragment") ELSE <<>>)

\* URL.String
String(u) == stringWith(u, EscapedPath(u))

\* the pair of one piece of the query, k and v being its unescaped key and
\* value; none when the piece is empty, has a ";" or a bad escape
parsePair(piece, k, v) ==
    IF piece = <<>> \/ Contains(piece, <<";">>) \/ ~k.ok \/ ~v.ok
    THEN <<>> ELSE << <<k.s, v.s>> >>

\* kv is the piece cut at its first "="
parseKeyValue(piece, kv) == parsePair(piece, unescape(kv[1], "query"), unescape(kv[2], "query"))

\* one "&"-separated piece of the query
parsePiece(piece) == parseKeyValue(piece, Cut(piece, "="))

\* c is the query cut at its first "&"
RECURSIVE ParseQuery(_)
parsePieces(c) == parsePiece(c[1]) \o ParseQuery(c[2])

\* url.ParseQuery over the "&"-separated pieces of query, as URL.Query
\* uses it (errors dropped): a piece with ";" or with a bad escape is skipped;
\* the result is the sequence of <<key, value>> pairs in order of appearance
ParseQuery(query) == IF query = <<>> THEN <<>> ELSE parsePieces(Cut(query, "&"))

\* the pairs of q whose key is the smallest key of q (in order), and the rest
MinKey(q) == CHOOSE k \in {q[i][1] : i \in 1..Len(q)} :
                 \A j \in 1..Len(q) : ~StrLess(q[j][1], k)

\* the subsequence of the pairs of q whose key is (keep) or is not k
RECURSIVE FilterKey(_, _, _)
FilterKey(q, k, keep) ==
    IF q = <<>> THEN <<>>
    ELSE (IF (q[1][1] = k) = keep THEN <<q[1]>> ELSE <<>>) \o FilterKey(Tail(q), k, keep)

\* the pairs of one key as "k=v" joined by "&"
encodePairs(mine) ==
    Join([i \in 1..Len(mine) |->
             escape(mine[i][1], "query") \o <<"=">> \o escape(mine[i][2], "query")],
         <<"&">>)

\* the keys after the first, each group after a "&"
RECURSIVE Encode(_)
encodeRest(rest) == IF rest = <<>> THEN <<>> ELSE <<"&">> \o Encode(rest)

\* the pairs of the smallest key k, then the others
encodeKey(q, k) == encodePairs(FilterKey(q, k, TRUE)) \o encodeRest(FilterKey(q, k, FALSE))

\* url.Values.Encode: "k=v" joined by "&", sorted by key, the values of one
\* key in the order they were added
Encode(q) == IF q = <<>> THEN <<>> ELSE encodeKey(q, MinKey(q))

(***************************************************************************)
(* net/http headers                                                        *)
(***************************************************************************)

\* a byte that may appear in a header field name (httpguts token bytes)
validHeaderFieldByte(c) ==
    IsUpper(c) \/ IsLower(c) \/ c \in Digits \/ c \in {"-", "_", ".", "+", "~", "!", "#"}

\* textproto.CanonicalMIMEHeaderKey: the first letter and every letter after
\* a "-" upper case, the others lower case; a name with a byte that is not a
\* token byte is returned unchanged
CanonicalMIMEHeaderKey(s) ==
    IF \E i \in 1..Len(s) : ~validHeaderFieldByte(s[i]) THEN s
    ELSE [i \in 1..Len(s) |->
             IF i = 1 \/ s[i - 1] = "-" THEN ToUpper(s[i]) ELSE ToLower(s[i])]

\* the value the map h holds under name, "" when it holds none
headerValue(h, name) == IF name \in DOMAIN h THEN h[name] ELSE ""

\* http.Header.Get: the value stored under the canonical form of key, ""
\* when there is none
HeaderGet(h, key) == headerValue(h, CanonicalMIMEHeaderKey(key))

\* the http.Header a response carries for the header lines wire (a set of
\* <<name, value>>): the transport stores each under its canonical name
ResponseHeader(wire) ==
    [n \in {CanonicalMIMEHeaderKey(l[1]) : l \in wire} |->
        (CHOOSE l \in wire : CanonicalMIMEHeaderKey(l[1]) = n)[2]]

\* the http.Header of a request after req.Header.Add(k, v) for every entry of
\* the map headers: the values are kept per canonical name (two names that
\* differ only in case share one entry; the order of their values is the
\* map's iteration order, which Go leaves unspecified, so the set is kept)
RequestHeader(headers) ==
    [n \in {CanonicalMIMEHeaderKey(k) : k \in DOMAIN headers} |->
        {headers[k] : k \in {k2 \in DOMAIN headers : CanonicalMIMEHeaderKey(k2) = n}}]

(***************************************************************************)
(* constants of the program                                                *)
(***************************************************************************)

HTTPMethodDelete == "delete"

HTTPMethodGet == "get"

HTTPMethodHead == "head"

HTTPMethodPut == "put"

HTTPMethods == {HTTPMethodDelete, HTTPMethodGet, HTTPMethodHead, HTTPMethodPut}

SIGNED_URL_ACCEPT_HEADER == "application/json;type=signed-url"

ConsistencyModeEventual == "eventual"

ConsistencyModeStrong == "strong"

\* "https://api.netlify.com"
DefaultAPIURL == <<"h","t","t","p","s",":","/","/","a","p","i",".","n","e","t","l","i","f","y",".","c","o","m">>

\* "/api/v1/blobs"
APIPathPrefix == <<"/","a","p","i","/","v","1","/","b","l","o","b","s">>

\* the header names the code writes
HdrAuthorization == <<"a","u","t","h","o","r","i","z","a","t","i","o","n">>

HdrAccept == <<"a","c","c","e","p","t">>

HdrCacheControl == <<"c","a","c","h","e","-","c","o","n","t","r","o","l">>

\* the header names NewBlobsInternalError reads
HdrNFError == <<"N","F","_","E","R","R","O","R">>

HdrNFRequestID == <<"N","F","_","R","E","Q","U","E","S","T","_","I","D">>

\* the longest store name validateStoreName accepts, in bytes
MaxStoreNameLen == 64

(***************************************************************************)
(* values                                                                  *)
(***************************************************************************)

\* a nil error
NoError == [type |-> "nil", Message |-> <<>>]

\* a nil *http.Response
NoResponse == [nil |-> TRUE, StatusCode |-> 0, Header |-> <<>>,
               Body |-> [nil |-> TRUE, bytes |-> <<>>, readErr |-> FALSE]]

\* a nil io.ReadCloser; readErr says that reading the body fails
NilBody == [nil |-> TRUE, bytes |-> <<>>, readErr |-> FALSE]

\* a nil *Store
NoStore == [nil |-> TRUE, Client |-> <<>>, Name |-> <<>>]

\* the return values of a function that has not returned
NoReturn == [kind |-> "none", headers |-> <<>>, url |-> <<>>, res |-> NoResponse,
             body |-> NilBody, err |-> NoError]

\* a caller that is in no call
Idle == [pc |-> "idle", entry |-> "none", recv |-> <<>>, options |-> <<>>, sent |-> <<>>,
         url |-> <<>>, signRes |-> NoResponse, transferRes |-> NoResponse,
         gfr |-> NoReturn,
         result |-> NoReturn]

(***************************************************************************)
(* errors (go.go lines 224-253, 435-445)                                   *)
(***************************************************************************)

\* lines 236-252: the error for the status code and for what the two Get
\* calls returned
internalError(StatusCode, nfError, requestID) ==
    [type    |-> "BlobsInternalError",
     Message |-> <<"Netlify Blobs has generated an internal error (">>
                 \o (IF nfError = "" THEN <<ToString(StatusCode), " status code">>
                     ELSE <<nfError>>)
                 \o (IF requestID # "" THEN <<", ID: ", requestID>> ELSE <<>>)
                 \o <<")">>]

\* NewBlobsInternalError(res) for a response res that is not nil: the detail
\* is the header HdrNFError, or "<status> status code" when Get finds none;
\* the header HdrNFRequestID is appended when Get finds one
NewBlobsInternalError(res) ==
    internalError(res.StatusCode, HeaderGet(res.Header, HdrNFError),
                  HeaderGet(res.Header, HdrNFRequestID))

\* NewBlobsConsistencyError()
NewBlobsConsistencyError == [type |-> "BlobsConsistencyError",
                             Message |-> <<"Blob consistency error">>]

(***************************************************************************)
(* Store creation (go.go lines 466-495)                                    *)
(***************************************************************************)

\* validateStoreName with the length taken in characters, not in bytes
validateStoreNameRunes(name) ==
    IF Contains(name, <<"/">>) \/ Contains(name, <<"%", "2", "F">>)
    THEN [type |-> "error",
          Message |-> <<"Store name must not contain forward slashes (/)">>]
    ELSE IF RuneCount(name) > MaxStoreNameLen
    THEN [type |-> "error",
          Message |-> <<"Store name must be a sequence of Unicode characters whose UTF-8 encoding is at most 64 bytes long">>]
    ELSE NoError

\* validateStoreName(name): the error, NoError when the name is accepted
validateStoreName(name) ==
    IF Contains(name, <<"/">>) \/ Contains(name, <<"%", "2", "F">>)
    THEN [type |-> "error",
          Message |-> <<"Store name must not contain forward slashes (/)">>]
    ELSE IF Len(name) > MaxStoreNameLen
    THEN [type |-> "error",
          Message |-> <<"Store name must be a sequence of Unicode characters whose UTF-8 encoding is at most 64 bytes long">>]
    ELSE NoError

\* lines 487-494: err is what validateStoreName returned
storeOrError(storeName, c, err) ==
    IF err # NoError THEN <<NoStore, err>>
    ELSE <<[nil |-> FALSE, Client |-> c, Name |-> storeName], NoError>>

\* NewStore(storeName, client): <<store, err>>; the Store holds its own copy
\* of the Client value it was given
NewStoreReturn(storeName, c) == storeOrError(storeName, c, validateStoreName(storeName))

(***************************************************************************)
(* Client.GetFinalRequest (go.go lines 268-396)                            *)
(***************************************************************************)

\* lines 273-281: "/" siteID, then "/" storeName and "/" key when not empty
urlPath(c, options) ==
    <<"/">> \o c.SiteID
    \o (IF options.StoreName # <<>> THEN <<"/">> \o options.StoreName ELSE <<>>)
    \o (IF options.Key # <<>> THEN <<"/">> \o options.Key ELSE <<>>)

\* lines 312-314: the headers of a request to the API
apiHeaders(c) == (HdrAuthorization :> ("Bearer " \o c.Token))

\* lines 315, 319-324: the two url.Parse calls
apiRef(c, options) == Parse(APIPathPrefix \o urlPath(c, options))

apiBase(c) == IF c.APIURL # <<>> THEN Parse(c.APIURL) ELSE Parse(DefaultAPIURL)

\* lines 330-340: the operation's parameters and the region are added to the
\* query of url
withQuery(c, options, url) ==
    [url EXCEPT !.RawQuery =
        Encode(ParseQuery(url.RawQuery)
               \o options.Parameters
               \o (IF c.Region # <<>> THEN << <<<<"r","e","g","i","o","n">>, c.Region>> >>
                   ELSE <<>>))]

\* lines 328-340: the reference u resolved against base, with its query
resolved(c, options, base, u) == withQuery(c, options, ResolveReference(base, u))

\* lines 315-340: the URL GetFinalRequest builds, when both URLs parse
apiURL(c, options) == resolved(c, options, apiBase(c), apiRef(c, options))

\* lines 357-363: the signing request, url being url.String()
signingRequest(c, options, url) ==
    [Method |-> options.Method,
     URL    |-> url,
     Header |-> RequestHeader((HdrAuthorization :> ("Bearer " \o c.Token))
                              @@ (HdrAccept :> SIGNED_URL_ACCEPT_HEADER)),
     kind   |-> "signing"]

\* GetFinalRequest returning no headers where it returns without a signing
\* exchange
getFinalRequestForNoHeaders(c, options, url) ==
    IF \/ options.StoreName = <<>> \/ options.Key = <<>>
       \/ options.Method = HTTPMethodHead \/ options.Method = HTTPMethodDelete
    THEN [kind |-> "return", req |-> <<>>,
          ret  |-> [NoReturn EXCEPT !.kind = "return", !.url = url]]
    ELSE [kind |-> "roundtrip", ret |-> NoReturn, req |-> signingRequest(c, options, url)]

\* lines 341-369, url being url.String()
getFinalRequestFor(c, options, url) ==
    IF options.StoreName = <<>> \/ options.Key = <<>>
    THEN [kind |-> "return", req |-> <<>>,
          ret  |-> [NoReturn EXCEPT !.kind = "return", !.headers = apiHeaders(c),
                                    !.url = url]]
    ELSE IF options.Method = HTTPMethodHead \/ options.Method = HTTPMethodDelete
    THEN [kind |-> "return", req |-> <<>>,
          ret  |-> [NoReturn EXCEPT !.kind = "return", !.headers = apiHeaders(c),
                                    !.url = url]]
    ELSE [kind |-> "roundtrip", ret |-> NoReturn, req |-> signingRequest(c, options, url)]

\* lines 315-340, u and base being what the two url.Parse calls returned
getFinalRequestWith(c, options, u, base) ==
    IF ~u.ok \/ ~base.ok
    THEN [kind |-> "fatal", ret |-> NoReturn, req |-> <<>>]
    ELSE getFinalRequestFor(c, options, String(resolved(c, options, base, u)))

\* GetFinalRequest up to its RoundTrip (lines 268-369): it exits the process
\* (log.Fatal) when a URL does not parse, returns the API URL and headers for
\* a list, HEAD or DELETE operation, and otherwise sends the signing request
GetFinalRequestStart(c, options) ==
    getFinalRequestWith(c, options, apiRef(c, options), apiBase(c))

\* GetFinalRequest after its RoundTrip returned (res, err) (lines 371-395);
\* url is the local variable url.  With err set res is nil, and
\* NewBlobsInternalError(res) dereferences it: the goroutine panics.  A body
\* that cannot be read exits the process (log.Fatal).  The body read is only
\* printed: the URL returned is the one the signing request was sent to
GetFinalRequestResume(url, res, err) ==
    IF err # NoError
    THEN [NoReturn EXCEPT !.kind = "panic"]
    ELSE IF res.StatusCode # 200
    THEN [NoReturn EXCEPT !.kind = "return", !.err = NewBlobsInternalError(res)]
    ELSE IF res.Body.readErr
    THEN [NoReturn EXCEPT !.kind = "fatal"]
    ELSE [NoReturn EXCEPT !.kind = "return", !.url = url]

(***************************************************************************)
(* Client.MakeRequest (go.go lines 398-433), Store.Get (lines 503-529)     *)
(***************************************************************************)

\* MakeRequest's headers without the cache-control of a PUT
requestHeadersNoCacheControl(options, headers) == options.Headers @@ headers

\* MakeRequest's headers with the resolved headers copied over the caller's
requestHeadersResolvedFirst(options, headers) ==
    IF options.Method = HTTPMethodPut
    THEN (HdrCacheControl :> "max-age=0, stale-while-revalidate=60") @@ (headers @@ options.Headers)
    ELSE headers @@ options.Headers

\* lines 414-420: the resolved headers, overridden by the caller's, and for
\* a PUT the cache-control entry
requestHeaders(options, headers) ==
    LET merged == options.Headers @@ headers
    IN IF options.Method = HTTPMethodPut
       THEN (HdrCacheControl :> "max-age=0, stale-while-revalidate=60") @@ merged
       ELSE merged

\* lines 422-429: the data-transfer request
transferRequest(options, gfr) ==
    [Method |-> options.Method,
     URL    |-> gfr.url,
     Header |-> RequestHeader(requestHeaders(options, gfr.headers)),
     kind   |-> "transfer"]

\* MakeRequest going on to the data transfer whatever GetFinalRequest returned
MakeRequestResumeUnchecked(options, gfr) ==
    [kind |-> "roundtrip", ret |-> NoReturn, req |-> transferRequest(options, gfr)]

\* MakeRequest once GetFinalRequest has returned gfr (lines 410-431): an
\* error is returned as it is, otherwise the data-transfer request is sent
\* (log.Fatal when http.NewRequest cannot parse the URL)
MakeRequestResume(options, gfr) ==
    IF gfr.err # NoError
    THEN [kind |-> "return", req |-> <<>>,
          ret  |-> [NoReturn EXCEPT !.kind = "return", !.err = gfr.err]]
    ELSE IF ~Parse(gfr.url).ok
    THEN [kind |-> "fatal", ret |-> NoReturn, req |-> <<>>]
    ELSE [kind |-> "roundtrip", ret |-> NoReturn, req |-> transferRequest(options, gfr)]

\* line 431: MakeRequest returns what the RoundTrip returned
MakeRequestReturn(res, err) ==
    [NoReturn EXCEPT !.kind = "return", !.res = res, !.err = err]

\* lines 505-514: the options Store.Get passes to MakeRequest
GetOptions(s, key) ==
    [Consistency |-> s.Client.Consistency, Headers |-> <<>>, Key |-> key,
     Metadata |-> {}, Method |-> HTTPMethodGet, Parameters |-> <<>>, StoreName |-> s.Name]

\* Store.Get handing out the body of a response with an error status
GetReturnErrorBody(res, err) ==
    IF err # NoError THEN [NoReturn EXCEPT !.kind = "return", !.err = err]
    ELSE IF res.StatusCode = 404 THEN [NoReturn EXCEPT !.kind = "return"]
    ELSE [NoReturn EXCEPT !.kind = "return", !.body = res.Body,
                          !.err = IF res.StatusCode # 200 THEN NewBlobsInternalError(res)
                                  ELSE NoError]

\* Store.Get without the test for status 404
GetReturnNo404(res, err) ==
    IF err # NoError THEN [NoReturn EXCEPT !.kind = "return", !.err = err]
    ELSE IF res.StatusCode # 200
    THEN [NoReturn EXCEPT !.kind = "return", !.err = NewBlobsInternalError(res)]
    ELSE [NoReturn EXCEPT !.kind = "return", !.body = res.Body]

\* lines 516-528: what Store.Get returns for the (res, err) of MakeRequest
GetReturn(res, err) ==
    IF err # NoError THEN [NoReturn EXCEPT !.kind = "return", !.err = err]
    ELSE IF res.StatusCode = 404 THEN [NoReturn EXCEPT !.kind = "return"]
    ELSE IF res.StatusCode # 200
    THEN [NoReturn EXCEPT !.kind = "return", !.err = NewBlobsInternalError(res)]
    ELSE [NoReturn EXCEPT !.kind = "return", !.body = res.Body]

(***************************************************************************)
(* handler (go.go lines 677-748)                                           *)
(***************************************************************************)

\* a nil *events.APIGatewayProxyResponse, and the two responses of handler
NoProxyResponse == [nil |-> TRUE, StatusCode |-> 0, Body |-> ""]

\* lines 679-682
UnavailableResponse == [nil |-> FALSE, StatusCode |-> 503, Body |-> "Something went wrong"]

\* lines 744-747 (cc.Client.AppPackageName being empty)
HelloResponse == [nil |-> FALSE, StatusCode |-> 200, Body |-> "Hello, "]

\* what handler has returned: nothing yet (kind "none"), a response and an
\* error ("return"); "fatal" when log.Fatal ended the process, "panic" when
\* the goroutine panicked
NoHandlerReturn == [kind |-> "none", res |-> NoProxyResponse, err |-> NoError]

\* handler before an invocation: hasContext says that the Lambda context was
\* there, decoded that request.Blobs was decoded
HandlerIdle == [pc |-> "idle", hasContext |-> FALSE, decoded |-> FALSE, ret |-> NoHandlerReturn]

\* the zero Client
NoClient == [APIURL |-> <<>>, Consistency |-> "", EdgeURL |-> <<>>, Region |-> <<>>,
             SiteID |-> <<>>, Token |-> "", UncachedEdgeURL |-> <<>>]

\* lines 723-727: the Client literal handler gives to NewStore
handlerClient(site_id, blobContext) ==
    [NoClient EXCEPT !.SiteID = site_id, !.Token = blobContext.Token,
                     !.Consistency = ConsistencyModeEventual]

\* "construction", "nails"
HandlerStoreName == <<"c","o","n","s","t","r","u","c","t","i","o","n">>

HandlerKey == <<"n","a","i","l","s">>

\* the error of json.Unmarshal
UnmarshalError == [type |-> "error", Message |-> <<"unexpected end of JSON input">>]

\* lines 733-747: handler once store.Get has returned get (or panicked).  An
\* error ends the process (log.Fatal); io.ReadAll on the nil reader of the
\* not-found result calls Read on a nil interface and panics; a body that
\* cannot be read ends the process
handlerReturn(get) ==
    IF get.kind = "panic" THEN [NoHandlerReturn EXCEPT !.kind = "panic"]
    ELSE IF get.err # NoError THEN [NoHandlerReturn EXCEPT !.kind = "fatal"]
    ELSE IF get.body.nil THEN [NoHandlerReturn EXCEPT !.kind = "panic"]
    ELSE IF get.body.readErr THEN [NoHandlerReturn EXCEPT !.kind = "fatal"]
    ELSE [NoHandlerReturn EXCEPT !.kind = "return", !.res = HelloResponse]

(***************************************************************************)
(* inputs                                                                  *)
(***************************************************************************)

\* how far the lengths of the long store names lie around MaxStoreNameLen
MaxExtra == 1

Callers == {"c1"}

Tokens == {"t"}

SiteIDs == {<<"s","1">>}

\* "", "https://api.example", "https://api.example/v2"
APIURLs == {<<>>, <<"h","t","t","p","s",":","/","/","a","p","i",".","e","x","a","m","p","l","e">>, <<"h","t","t","p","s",":","/","/","a","p","i",".","e","x","a","m","p","l","e","/","v","2">>}

\* "", "https://edge.example"
EdgeURLs == {<<>>, <<"h","t","t","p","s",":","/","/","e","d","g","e",".","e","x","a","m","p","l","e">>}

\* "", "https://uncached.example"
UncachedEdgeURLs == {<<>>, <<"h","t","t","p","s",":","/","/","u","n","c","a","c","h","e","d",".","e","x","a","m","p","l","e">>}

Regions == {<<>>, <<"a","u","t","o">>}

Clients == [APIURL : APIURLs, Consistency : {ConsistencyModeEventual, ConsistencyModeStrong},
            EdgeURL : EdgeURLs, Region : Regions, SiteID : SiteIDs, Token : Tokens,
            UncachedEdgeURL : UncachedEdgeURLs]

\* the Clients of the Store API runs: the default API, no region
StoreClients == {c \in Clients : c.APIURL = <<>> /\ c.Region = <<>>}

\* the Clients of the Client API runs: every edge configuration with the
\* default API and no region, and every API URL and region with no edge
DirectClients ==
    {c \in Clients : c.APIURL = <<>> /\ c.Region = <<>>}
    \cup {c \in Clients : /\ c.EdgeURL = <<>> /\ c.UncachedEdgeURL = <<>>
                          /\ c.Consistency = ConsistencyModeEventual}

\* the short names: "", "st", "a/b", "a%2Fb", "a%2fb"
ShortNames == {<<>>, <<"s","t">>, <<"a","/","b">>, <<"a","%","2","F","b">>, <<"a","%","2","f","b">>}

\* names of one-byte characters around the limit, and names of the two-byte
\* character U+00E9 around the limit
LongNames ==
    {Repeat(<<"n">>, n) : n \in (MaxStoreNameLen - MaxExtra)..(MaxStoreNameLen + MaxExtra)}
    \cup {Repeat(<<"xC3", "xA9">>, n) :
             n \in ((MaxStoreNameLen \div 2) - MaxExtra)..((MaxStoreNameLen \div 2) + MaxExtra)}

StoreNames == ShortNames \cup LongNames

\* "", "k", "a?b", "%zz", "/k", "%2Fk"
Keys == {<<>>, <<"k">>, <<"a","?","b">>, <<"%","z","z">>, <<"/","k">>, <<"%","2","F","k">>}

\* the bodies a server answers with: the JSON {"url":"https://signed.example/x"}
\* of a signing answer, and a blob's content
SignedURL == <<"h","t","t","p","s",":","/","/","s","i","g","n","e","d",".","e","x","a","m","p","l","e","/","x">>

SignedURLBody(u) == <<"{","\"","u","r","l","\"",":","\"">> \o u \o <<"\"","}">>

Bodies == {[nil |-> FALSE, bytes |-> SignedURLBody(SignedURL), readErr |-> FALSE],
           [nil |-> FALSE, bytes |-> <<"9">>, readErr |-> FALSE],
           [nil |-> FALSE, bytes |-> <<>>, readErr |-> TRUE]}

\* the header lines of an answer with status 500: none, the error detail,
\* the detail and the request id, and both under the names with underscores
WireHeaders == {{},
                {<<<<"N","F","-","E","r","r","o","r">>, "disk full">>},
                {<<<<"N","F","-","E","r","r","o","r">>, "disk full">>, <<<<"N","F","-","R","e","q","u","e","s","t","-","I","D">>, "req-1">>},
                {<<<<"N","F","_","E","R","R","O","R">>, "disk full">>, <<<<"N","F","_","R","E","Q","U","E","S","T","_","I","D">>, "req-1">>}}

\* the responses of the transport
Responses ==
    {[nil |-> FALSE, StatusCode |-> 200, Header |-> <<>>, Body |-> b] : b \in Bodies}
    \cup {[nil |-> FALSE, StatusCode |-> 500, Header |-> ResponseHeader(w),
           Body |-> [nil |-> FALSE, bytes |-> <<>>, readErr |-> FALSE]] : w \in WireHeaders}
    \cup {[nil |-> FALSE, StatusCode |-> 404, Header |-> <<>>,
           Body |-> [nil |-> FALSE, bytes |-> <<>>, readErr |-> FALSE]]}

\* the error of a round trip that got no response
TransportError == [type |-> "error", Message |-> <<"dial tcp: connection refused">>]

\* what http.DefaultTransport.RoundTrip returns: a response and no error, or
\* no response and an error
RoundTrips == {<<r, NoError>> : r \in Responses} \cup {<<NoResponse, TransportError>>}

\* the parameters of a direct call: none, or prefix=a
ParameterSets == {<<>>, << <<<<"p","r","e","f","i","x">>, <<"a">>>> >>}

\* the options of the direct calls of GetFinalRequest and MakeRequest
DirectKeys == Keys

DirectOptions == [Consistency : {"nil"}, Headers : {<<>>}, Key : DirectKeys,
                  Metadata : {{}}, Method : HTTPMethods, Parameters : ParameterSets,
                  StoreName : {<<>>, <<"s","t">>}]

\* the headers a caller puts in options.Headers: none, "authorization:
\* Bearer other", "cache-control: no-store", both, "Cache-Control: no-store"
CallerHeaders ==
    {<<>>,
     HdrAuthorization :> "Bearer other",
     HdrCacheControl :> "no-store",
     (HdrAuthorization :> "Bearer other") @@ (HdrCacheControl :> "no-store"),
     <<"C","a","c","h","e","-","C","o","n","t","r","o","l">> :> "no-store"}

\* the metadata of an operation: none, or {"a": "1"}
Metadatas == {{}, {<<"a", "1">>}}

\* the options of the calls that vary headers, metadata and consistency
RequestOptions ==
    [Consistency : {"nil", ConsistencyModeEventual, ConsistencyModeStrong},
     Headers : CallerHeaders, Key : {<<>>, <<"k">>}, Metadata : Metadatas,
     Method : HTTPMethods, Parameters : {<<>>}, StoreName : {<<"s","t">>}]

\* their Clients: the default API with no edge, and both edge URLs with
\* either default consistency
RequestClients ==
    {c \in Clients : /\ c.APIURL = <<>> /\ c.Region = <<>>
                     /\ (c.EdgeURL = <<>>) = (c.UncachedEdgeURL = <<>>)
                     /\ c.EdgeURL = <<>> => c.Consistency = ConsistencyModeEventual}

\* their round trips: the signed URL, a refusal, no response
RequestRoundTrips ==
    {rt \in RoundTrips : \/ rt[1].nil
                         \/ rt[1].StatusCode = 500 /\ rt[1].Header = ResponseHeader({})
                         \/ rt[1].StatusCode = 200 /\ rt[1].Body.bytes = SignedURLBody(SignedURL)}

\* the callers that run operations at the same time
SharedCallers == {"c1", "c2"}

\* the Clients they share: both edge URLs and eventual consistency, with the
\* default API or with the API URL "https://api.example"
SharedClients ==
    {c \in Clients : /\ c.Region = <<>>
                     /\ c.EdgeURL # <<>> /\ c.UncachedEdgeURL # <<>>
                     /\ c.Consistency = ConsistencyModeEventual
                     /\ c.APIURL \in {<<>>, <<"h","t","t","p","s",":","/","/","a","p","i",".","e","x","a","m","p","l","e">>}}

\* their operations: a GET or a DELETE of the key "k" of the store "st", with
\* no consistency of its own or with strong consistency
SharedOptions ==
    [Consistency : {"nil", ConsistencyModeStrong},
     Headers : {<<>>}, Key : {<<"k">>}, Metadata : {{}},
     Method : {HTTPMethodGet, HTTPMethodDelete}, Parameters : {<<>>},
     StoreName : {<<"s","t">>}]

\* their round trips: the signed URL, or a refusal
SharedRoundTrips == {rt \in RequestRoundTrips : ~rt[1].nil}

\* the x-nf-site-id header of an invocation: absent, or "s1"
HandlerSiteIDs == {<<>>} \cup SiteIDs

\* what request.Blobs decodes to: an EnvironmentContext with or without a
\* token, or the error of json.Unmarshal
BlobContexts == [err : {NoError}, Token : {""} \cup Tokens]
                \cup {[err |-> UnmarshalError, Token |-> ""]}

(***************************************************************************)
(* the state machine                                                       *)
(*                                                                         *)
(* client   the Client value the program holds and passes to NewStore      *)
(* storeArg the storeName of the last NewStore call (called: there was one)*)
(* store    the *Store NewStore returned last, storeErr its error          *)
(* call[c]  the call of caller c: where it stands (pc: "idle", "signing"   *)
(*          while the signing round trip is out, "transfer" while the      *)
(*          data-transfer round trip is out, "done"), the function called  *)
(*          (entry), its receiver and options, the requests handed to the  *)
(*          transport (sent), the responses they got (signRes,             *)
(*          transferRes), what GetFinalRequest returned (gfr) and what the *)
(*          function called returned (result)                              *)
(* exited   the process has exited (log.Fatal)                             *)
(***************************************************************************)

InitWith(clients) ==
    /\ client \in clients
    /\ storeArg = [called |-> FALSE, storeName |-> <<>>]
    /\ store = NoStore
    /\ storeErr = NoError
    /\ call = [c \in Callers |-> Idle]
    /\ exited = FALSE

Init == InitWith(StoreClients)

InitClient == InitWith(DirectClients)

\* the call record c1 (it holds what GetFinalRequest returned), m being what
\* MakeRequest does next
afterMakeRequest(c1, m) ==
    IF c1.gfr.kind \in {"fatal", "panic"}
    THEN [c1 EXCEPT !.pc = "done", !.result = [NoReturn EXCEPT !.kind = c1.gfr.kind]]
    ELSE IF c1.entry = "GetFinalRequest"
    THEN [c1 EXCEPT !.pc = "done", !.result = c1.gfr]
    ELSE IF m.kind = "roundtrip"
    THEN [c1 EXCEPT !.pc = "transfer", !.sent = Append(@, m.req)]
    ELSE IF m.kind = "fatal"
    THEN [c1 EXCEPT !.pc = "done", !.result = [NoReturn EXCEPT !.kind = "fatal"]]
    ELSE [c1 EXCEPT !.pc = "done",
                    !.result = IF c1.entry = "Get"
                               THEN GetReturn(NoResponse, m.ret.err)
                               ELSE m.ret]

\* the call record once GetFinalRequest has returned gfr (or ended the
\* process or panicked): GetFinalRequest's caller gets gfr, MakeRequest goes
\* on to the data transfer
afterResolve(cl, gfr) ==
    afterMakeRequest([cl EXCEPT !.gfr = gfr], MakeRequestResume(cl.options, gfr))

\* the call record cl after GetFinalRequest ran up to its round trip (start)
afterStart(cl, start) ==
    IF start.kind = "roundtrip"
    THEN [cl EXCEPT !.pc = "signing", !.sent = <<start.req>>, !.url = start.req.URL]
    ELSE afterResolve(cl, IF start.kind = "fatal"
                          THEN [NoReturn EXCEPT !.kind = "fatal"]
                          ELSE start.ret)

\* a call that runs on the program's Client variable whatever its receiver
BeginOnProgramClient(c, entry, recv, options) ==
    /\ ~exited
    /\ call[c].pc = "idle"
    /\ call' = [call EXCEPT ![c] =
                   afterStart([Idle EXCEPT !.entry = entry, !.recv = client,
                                           !.options = options],
                              GetFinalRequestStart(client, options))]
    /\ exited' = (call'[c].result.kind = "fatal")
    /\ UNCHANGED <<client, storeArg, store, storeErr>>

\* caller c calls entry on the Client recv with options: the call runs to
\* its first round trip or to its end
Begin(c, entry, recv, options) ==
    /\ ~exited
    /\ call[c].pc = "idle"
    /\ call' = [call EXCEPT ![c] =
                   afterStart([Idle EXCEPT !.entry = entry, !.recv = recv,
                                           !.options = options],
                              GetFinalRequestStart(recv, options))]
    /\ exited' = (call'[c].result.kind = "fatal")
    /\ UNCHANGED <<client, storeArg, store, storeErr>>

\* caller c, in no call: store, err := NewStore(storeName, client)
NewStore(c, storeName) ==
    /\ ~exited
    /\ call[c].pc = "idle"
    /\ storeArg' = [called |-> TRUE, storeName |-> storeName]
    /\ store' = NewStoreReturn(storeName, client)[1]
    /\ storeErr' = NewStoreReturn(storeName, client)[2]
    /\ UNCHANGED <<client, call, exited>>

\* c.GetFinalRequest(options) on the program's Client
CallGetFinalRequest(c, options) == Begin(c, "GetFinalRequest", client, options)

\* c.MakeRequest(options) on the program's Client
CallMakeRequest(c, options) == Begin(c, "MakeRequest", client, options)

\* store.Get(key)
StoreGet(c, key) ==
    /\ ~store.nil
    /\ Begin(c, "Get", store.Client, GetOptions(store, key))

\* the signing round trip of caller c returns rt = <<res, err>>
SigningRoundTrip(c, rt) ==
    /\ ~exited
    /\ call[c].pc = "signing"
    /\ call' = [call EXCEPT ![c] =
                   afterResolve([call[c] EXCEPT !.signRes = rt[1]],
                                GetFinalRequestResume(call[c].url, rt[1], rt[2]))]
    /\ exited' = (call'[c].result.kind = "fatal")
    /\ UNCHANGED <<client, storeArg, store, storeErr>>

\* the data-transfer round trip of caller c returns rt = <<res, err>>
TransferRoundTrip(c, rt) ==
    /\ ~exited
    /\ call[c].pc = "transfer"
    /\ call' = [call EXCEPT ![c] =
                   [@ EXCEPT !.pc = "done", !.transferRes = rt[1],
                             !.result = IF call[c].entry = "Get" THEN GetReturn(rt[1], rt[2])
                                        ELSE MakeRequestReturn(rt[1], rt[2])]]
    /\ UNCHANGED <<client, storeArg, store, storeErr, exited>>

\* caller c takes the result of its call and is free for the next one
Return(c) ==
    /\ ~exited
    /\ call[c].pc = "done"
    /\ call' = [call EXCEPT ![c] = Idle]
    /\ UNCHANGED <<client, storeArg, store, storeErr, exited>>

\* the Store API: the program creates stores and reads keys
Next ==
    \/ \E c \in Callers, name \in StoreNames : NewStore(c, name)
    \/ \E c \in Callers, key \in Keys : StoreGet(c, key)
    \/ \E c \in Callers, rt \in RoundTrips : SigningRoundTrip(c, rt)
    \/ \E c \in Callers, rt \in RoundTrips : TransferRoundTrip(c, rt)
    \/ \E c \in Callers : Return(c)

Spec == Init /\ [][Next]_vars

\* the Client API: the program calls GetFinalRequest and MakeRequest itself
NextClient ==
    \/ \E c \in Callers, o \in DirectOptions : CallGetFinalRequest(c, o)
    \/ \E c \in Callers, o \in DirectOptions : CallMakeRequest(c, o)
    \/ \E c \in Callers, rt \in RoundTrips : SigningRoundTrip(c, rt)
    \/ \E c \in Callers, rt \in RoundTrips : TransferRoundTrip(c, rt)
    \/ \E c \in Callers : Return(c)

SpecClient == InitClient /\ [][NextClient]_vars

InitRequest == InitWith(RequestClients)

\* the Client API called with headers, metadata and a consistency of the
\* caller's
NextRequest ==
    \/ \E c \in Callers, o \in RequestOptions : CallGetFinalRequest(c, o)
    \/ \E c \in Callers, o \in RequestOptions : CallMakeRequest(c, o)
    \/ \E c \in Callers, rt \in RequestRoundTrips : SigningRoundTrip(c, rt)
    \/ \E c \in Callers, rt \in RequestRoundTrips : TransferRoundTrip(c, rt)
    \/ \E c \in Callers : Return(c)

SpecRequest == InitRequest /\ [][NextRequest]_vars

\* the program assigns new to its Client variable; no call on that variable
\* is running (a Store.Get runs on the Store's own Client)
SetClient(c, new) ==
    /\ ~exited
    /\ call[c].pc = "idle"
    /\ \A d \in DOMAIN call : call[d].pc # "idle" => call[d].entry = "Get"
    /\ new # client
    /\ client' = new
    /\ UNCHANGED <<storeArg, store, storeErr, call, exited>>

InitShared ==
    /\ client \in SharedClients
    /\ storeArg = [called |-> FALSE, storeName |-> <<>>]
    /\ store = NoStore
    /\ storeErr = NoError
    /\ call = [c \in SharedCallers |-> Idle]
    /\ exited = FALSE

\* two callers on one Client and one Store
NextShared ==
    \/ \E c \in SharedCallers : NewStore(c, <<"s","t">>)
    \/ \E c \in SharedCallers, new \in SharedClients : SetClient(c, new)
    \/ \E c \in SharedCallers : StoreGet(c, <<"k">>)
    \/ \E c \in SharedCallers, o \in SharedOptions : CallGetFinalRequest(c, o)
    \/ \E c \in SharedCallers, o \in SharedOptions : CallMakeRequest(c, o)
    \/ \E c \in SharedCallers, rt \in SharedRoundTrips : SigningRoundTrip(c, rt)
    \/ \E c \in SharedCallers, rt \in SharedRoundTrips : TransferRoundTrip(c, rt)
    \/ \E c \in SharedCallers : Return(c)

SpecShared == InitShared /\ [][NextShared]_vars

\* call["handler"] is handler itself, call[c] the store.Get it runs
InitHandler ==
    /\ client = NoClient
    /\ storeArg = [called |-> FALSE, storeName |-> <<>>]
    /\ store = NoStore
    /\ storeErr = NoError
    /\ call = [c \in Callers \cup {"handler"} |-> IF c = "handler" THEN HandlerIdle ELSE Idle]
    /\ exited = FALSE

\* lines 678-684: an invocation without the Lambda context
HandlerNoContext ==
    /\ ~exited
    /\ call["handler"].pc = "idle"
    /\ call' = [call EXCEPT !["handler"] =
                   [HandlerIdle EXCEPT !.pc = "done",
                                       !.ret = [NoHandlerReturn EXCEPT !.kind = "return",
                                                                       !.res = UnavailableResponse]]]
    /\ UNCHANGED <<client, storeArg, store, storeErr, exited>>

\* lines 678-710: an invocation whose request.Blobs does not decode
HandlerBadBlob(blobContext) ==
    /\ ~exited
    /\ call["handler"].pc = "idle"
    /\ blobContext.err # NoError
    /\ call' = [call EXCEPT !["handler"] =
                   [HandlerIdle EXCEPT !.pc = "done", !.hasContext = TRUE, !.decoded = TRUE,
                                       !.ret = [NoHandlerReturn EXCEPT !.kind = "return",
                                                                       !.err = blobContext.err]]]
    /\ UNCHANGED <<client, storeArg, store, storeErr, exited>>

\* lines 678-733: an invocation up to the first round trip of
\* store.Get("nails"), run as call[c]
HandlerGet(c, site_id, blobContext) ==
    /\ ~exited
    /\ call["handler"].pc = "idle"
    /\ call[c].pc = "idle"
    /\ blobContext.err = NoError
    /\ client' = handlerClient(site_id, blobContext)
    /\ storeArg' = [called |-> TRUE, storeName |-> HandlerStoreName]
    /\ store' = NewStoreReturn(HandlerStoreName, client')[1]
    /\ storeErr' = NewStoreReturn(HandlerStoreName, client')[2]
    /\ call' = IF storeErr' # NoError
               THEN [call EXCEPT !["handler"] =
                        [HandlerIdle EXCEPT !.pc = "done", !.hasContext = TRUE, !.decoded = TRUE,
                                            !.ret = [NoHandlerReturn EXCEPT !.kind = "return",
                                                                            !.err = storeErr']]]
               ELSE [call EXCEPT
                        !["handler"] = [HandlerIdle EXCEPT !.pc = "get", !.hasContext = TRUE,
                                                           !.decoded = TRUE],
                        ![c] = afterStart([Idle EXCEPT !.entry = "Get", !.recv = store'.Client,
                                                       !.options = GetOptions(store', HandlerKey)],
                                          GetFinalRequestStart(store'.Client,
                                                               GetOptions(store', HandlerKey)))]
    /\ exited' = (call'[c].result.kind = "fatal")

\* lines 734-747: store.Get has returned (or panicked) and handler runs to
\* its end
HandlerResume(c) ==
    /\ ~exited
    /\ call["handler"].pc = "get"
    /\ call[c].pc = "done"
    /\ call' = [call EXCEPT !["handler"] = [@ EXCEPT !.pc = "done",
                                                      !.ret = handlerReturn(call[c].result)],
                            ![c] = Idle]
    /\ exited' = (call'["handler"].ret.kind = "fatal")
    /\ UNCHANGED <<client, storeArg, store, storeErr>>

\* lambda.Start takes what handler returned; the locals of the invocation
\* are gone
HandlerRespond ==
    /\ ~exited
    /\ call["handler"].pc = "done"
    /\ call["handler"].ret.kind = "return"
    /\ call' = [call EXCEPT !["handler"] = HandlerIdle]
    /\ client' = NoClient
    /\ storeArg' = [called |-> FALSE, storeName |-> <<>>]
    /\ store' = NoStore
    /\ storeErr' = NoError
    /\ UNCHANGED exited

\* lambda.Start(handler): one invocation after the other
NextHandler ==
    \/ HandlerNoContext
    \/ \E b \in BlobContexts : HandlerBadBlob(b)
    \/ \E c \in Callers, s \in HandlerSiteIDs, b \in BlobContexts : HandlerGet(c, s, b)
    \/ \E c \in Callers, rt \in RoundTrips : SigningRoundTrip(c, rt)
    \/ \E c \in Callers, rt \in RoundTrips : TransferRoundTrip(c, rt)
    \/ \E c \in Callers : HandlerResume(c)
    \/ HandlerRespond

SpecHandler == InitHandler /\ [][NextHandler]_vars

(***************************************************************************)
(* properties                                                              *)
(***************************************************************************)

\* the calls under way or ended
Active == {c \in Callers : call[c].pc # "idle"}

\* the requests of kind k that call cl handed to the transport
SentOf(cl, k) == {i \in 1..Len(cl.sent) : cl.sent[i].kind = k}

\* the call resolves through the API: its Client has no edge URL
OnAPIBranch(cl) == cl.recv.EdgeURL = <<>>

\* a GET or PUT of a key in a store: the operation that needs a signed URL
NeedsSigning(cl) ==
    /\ cl.options.Method \in {HTTPMethodGet, HTTPMethodPut}
    /\ cl.options.StoreName # <<>>
    /\ cl.options.Key # <<>>

\* the consistency in force: the operation's when it gives one, else the
\* Client's
EffectiveConsistency(cl) ==
    IF cl.options.Consistency # "nil" THEN cl.options.Consistency ELSE cl.recv.Consistency

\* the value v is part of the message of err
InMessage(err, v) == \E i \in 1..Len(err.Message) : err.Message[i] = v

\* the header names of the wire contract: "NF-Error", "NF-Request-ID"
WireNFError == <<"N","F","-","E","r","r","o","r">>

WireNFRequestID == <<"N","F","-","R","e","q","u","e","s","t","-","I","D">>

\* C1: on the API branch, when the signing exchange of a GET or PUT of a key
\* answers 200 with the body {"url": U}, GetFinalRequest returns U and the
\* data-transfer request goes to U.
C1_SignedURLIsTarget ==
    \A c \in Active :
        LET cl == call[c]
        IN (/\ OnAPIBranch(cl) /\ NeedsSigning(cl)
            /\ cl.gfr.kind = "return"
            /\ cl.signRes.StatusCode = 200
            /\ cl.signRes.Body.bytes = SignedURLBody(SignedURL))
           => /\ cl.gfr.url = SignedURL
              /\ \A i \in SentOf(cl, "transfer") : cl.sent[i].URL = SignedURL

\* C2: a signing answer with a status other than 200 makes GetFinalRequest
\* fail with a BlobsInternalError whose message carries the NF-Error header
\* when the answer has one, "<status> status code" only when it has none,
\* and the NF-Request-ID header when the answer has one.
C2_ErrorCarriesUpstreamDetail ==
    \A c \in Active :
        LET cl    == call[c]
            nfErr == HeaderGet(cl.signRes.Header, WireNFError)
            reqID == HeaderGet(cl.signRes.Header, WireNFRequestID)
        IN (/\ cl.gfr.kind = "return"
            /\ ~cl.signRes.nil
            /\ cl.signRes.StatusCode # 200)
           => /\ cl.gfr.err.type = "BlobsInternalError"
              /\ nfErr # "" => InMessage(cl.gfr.err, nfErr)
              /\ InMessage(cl.gfr.err, " status code") => nfErr = ""
              /\ reqID # "" => InMessage(cl.gfr.err, reqID)

\* the (nil, nil) of Store.Get: no value and no error
IsNotFound(ret) == ret.kind = "return" /\ ret.body.nil /\ ret.err = NoError

\* C3 as stated: a Store.Get whose requests were all answered 404, the
\* signing request included, returns the not-found result.
C3_Every404IsNotFound ==
    \A c \in Active :
        LET cl == call[c]
        IN (/\ cl.entry = "Get" /\ cl.pc = "done"
            /\ SentOf(cl, "signing") # {} => cl.signRes.StatusCode = 404
            /\ SentOf(cl, "transfer") # {} => cl.transferRes.StatusCode = 404
            /\ cl.sent # <<>>)
           => IsNotFound(cl.result)

\* C3: a Store.Get whose data-transfer request is answered 404 returns the
\* not-found result; a 404 to the signing request is returned as a
\* BlobsInternalError, and no data-transfer request is sent.
C3_Transfer404IsNotFound ==
    \A c \in Active :
        LET cl == call[c]
        IN (cl.entry = "Get" /\ cl.pc = "done")
           => /\ (SentOf(cl, "transfer") # {} /\ cl.transferRes.StatusCode = 404)
                 => IsNotFound(cl.result)
              /\ (SentOf(cl, "signing") # {} /\ cl.signRes.StatusCode = 404)
                 => /\ cl.result.kind = "return"
                    /\ cl.result.err.type = "BlobsInternalError"
                    /\ SentOf(cl, "transfer") = {}

C3_Witness ==
    \E c \in Active :
        /\ call[c].entry = "Get" /\ call[c].pc = "done"
        /\ SentOf(call[c], "signing") # {} /\ call[c].signRes.StatusCode = 200
        /\ SentOf(call[c], "transfer") # {} /\ call[c].transferRes.StatusCode = 404
        /\ IsNotFound(call[c].result)

\* C4: with an edge URL, no uncached edge URL and strong consistency,
\* GetFinalRequest fails with a BlobsConsistencyError for every operation and
\* no request is handed to the transport.
C4_StrongNeedsUncached ==
    \A c \in Active :
        LET cl == call[c]
        IN (/\ cl.recv.EdgeURL # <<>>
            /\ cl.recv.UncachedEdgeURL = <<>>
            /\ EffectiveConsistency(cl) = ConsistencyModeStrong)
           => /\ SentOf(cl, "signing") = {}
              /\ cl.gfr.kind # "none" => cl.gfr.err = NewBlobsConsistencyError

\* the edge endpoint of a call: the uncached one under strong consistency
EdgeBase(cl) ==
    IF EffectiveConsistency(cl) = ConsistencyModeStrong
    THEN cl.recv.UncachedEdgeURL ELSE cl.recv.EdgeURL

\* C5: with an edge URL (and an uncached one under strong consistency)
\* GetFinalRequest hands no request to the transport and returns a URL on
\* the edge endpoint with the bearer authorization header.
C5_EdgeResolvesLocally ==
    \A c \in Active :
        LET cl == call[c]
        IN (/\ cl.recv.EdgeURL # <<>>
            /\ EdgeBase(cl) # <<>>)
           => /\ SentOf(cl, "signing") = {}
              /\ cl.gfr.kind # "none"
                 => /\ cl.gfr.kind = "return"
                    /\ HasPrefix(cl.gfr.url, EdgeBase(cl))
                    /\ HdrAuthorization \in DOMAIN cl.gfr.headers
                    /\ cl.gfr.headers[HdrAuthorization] = "Bearer " \o cl.recv.Token

\* the name has a "/" or a percent-encoded "/" ("%2F", "%2f")
HasSlashForm(name) ==
    \/ Contains(name, <<"/">>)
    \/ \E i \in 1..(Len(name) - 2) :
           name[i] = "%" /\ name[i + 1] = "2" /\ ToUpper(name[i + 2]) = "F"

\* C6: NewStore of a name with "/" or with a percent-encoded "/" in either
\* letter case returns an error and no Store.
C6_SlashNamesRejected ==
    (storeArg.called /\ HasSlashForm(storeArg.storeName))
    => store.nil /\ storeErr # NoError

\* C7: a Store that NewStore returned, and so the storeName of every
\* Store.Get, has no "/" and at most 64 bytes; a name of 64 bytes without
\* "/" is accepted and a name of more than 64 bytes is rejected.
C7_StoreNameInvariant ==
    /\ ~store.nil => ~Contains(store.Name, <<"/">>) /\ Len(store.Name) <= 64
    /\ \A c \in Active :
           call[c].entry = "Get"
           => /\ ~Contains(call[c].options.StoreName, <<"/">>)
              /\ Len(call[c].options.StoreName) <= 64
    /\ (storeArg.called /\ Len(storeArg.storeName) = 64
        /\ ~HasSlashForm(storeArg.storeName))
       => ~store.nil /\ store.Name = storeArg.storeName /\ storeErr = NoError
    /\ (storeArg.called /\ Len(storeArg.storeName) > 64)
       => store.nil /\ storeErr # NoError

C7_Witness ==
    \E c \in Active :
        /\ call[c].entry = "Get"
        /\ Len(call[c].options.StoreName) = 64
        /\ RuneCount(call[c].options.StoreName) < 64
        /\ call[c].sent # <<>>

\* the key is empty or starts with "/" or with a percent-encoded "/"
IsBadKey(key) ==
    \/ key = <<>>
    \/ HasPrefix(key, <<"/">>)
    \/ Len(key) >= 3 /\ HasSlashForm(SubSeq(key, 1, 3))

\* C8: a Store.Get of an empty key, or of a key that starts with "/" or its
\* percent-encoding, returns a validation error and hands no request to the
\* transport.
C8_BadKeysRejected ==
    \A c \in Active :
        LET cl == call[c]
        IN (cl.entry = "Get" /\ IsBadKey(cl.options.Key))
           => /\ cl.sent = <<>>
              /\ cl.pc = "done"
              /\ cl.result.kind = "return"
              /\ cl.result.err # NoError

\* C9: on the API branch a finished GetFinalRequest has handed exactly one
\* request to the transport, the signing request with the operation's method
\* and the signed-URL Accept header, for a GET or PUT of a key in a store;
\* for a list, HEAD or DELETE operation it has handed none and has returned
\* the API URL and the bearer authorization header.
C9_OneSigningCallOrNone ==
    \A c \in Active :
        LET cl == call[c]
        IN (cl.entry = "GetFinalRequest" /\ OnAPIBranch(cl) /\ cl.pc = "done")
           => IF NeedsSigning(cl)
              THEN /\ Len(cl.sent) = 1
                   /\ cl.sent[1].kind = "signing"
                   /\ cl.sent[1].Method = cl.options.Method
                   /\ CanonicalMIMEHeaderKey(HdrAccept) \in DOMAIN cl.sent[1].Header
                   /\ cl.sent[1].Header[CanonicalMIMEHeaderKey(HdrAccept)]
                          = {SIGNED_URL_ACCEPT_HEADER}
              ELSE /\ cl.sent = <<>>
                   /\ cl.gfr.kind = "return"
                   /\ cl.gfr.err = NoError
                   /\ cl.gfr.url = String(apiURL(cl.recv, cl.options))
                   /\ cl.gfr.headers = (HdrAuthorization :> ("Bearer " \o cl.recv.Token))

\* the URL the call built: the one of its first request, or the one
\* GetFinalRequest returned without a request
BuiltURL(cl) == IF cl.sent # <<>> THEN cl.sent[1].URL ELSE cl.gfr.url

\* C10: on the API branch the URL GetFinalRequest builds is
\* {apiBase}/api/v1/blobs/{siteID}[/{storeName}][/{key}], apiBase being the
\* Client's APIURL or else https://api.netlify.com, and its query has
\* region={Region} exactly when the Client has a region.
C10_APIURLShape ==
    \A c \in Active :
        LET cl    == call[c]
            parts == Cut(BuiltURL(cl), "?")
            base  == IF cl.recv.APIURL # <<>> THEN cl.recv.APIURL ELSE DefaultAPIURL
        IN OnAPIBranch(cl)
           => /\ cl.sent # <<>> \/ cl.gfr.kind = "return"
              /\ parts[1] = base \o APIPathPrefix \o <<"/">> \o cl.recv.SiteID
                            \o (IF cl.options.StoreName # <<>>
                                THEN <<"/">> \o cl.options.StoreName ELSE <<>>)
                            \o (IF cl.options.Key # <<>>
                                THEN <<"/">> \o cl.options.Key ELSE <<>>)
              /\ cl.recv.Region # <<>>
                 => Contains(parts[2], <<"r","e","g","i","o","n","=">> \o cl.recv.Region)
              /\ cl.recv.Region = <<>> => ~Contains(parts[2], <<"r","e","g","i","o","n","=">>)

\* the signing round trip of the call came back with an error and no response
SigningFailedInTransport(cl) ==
    /\ SentOf(cl, "signing") # {}
    /\ cl.pc # "signing"
    /\ cl.signRes.nil

\* C11: when the signing round trip returns an error and no response,
\* GetFinalRequest returns a BlobsInternalError to its caller, with no URL
\* and no headers; it does not crash.
C11_TransportErrorIsReturned ==
    \A c \in Active :
        SigningFailedInTransport(call[c])
        => /\ call[c].gfr.kind = "return"
           /\ call[c].gfr.err.type = "BlobsInternalError"
           /\ call[c].gfr.url = <<>>
           /\ call[c].gfr.headers = <<>>

\* the call went through MakeRequest (directly or from Store.Get)
ThroughMakeRequest(cl) == cl.entry # "GetFinalRequest"

\* C12: within one MakeRequest the data-transfer request is sent only after
\* GetFinalRequest returned without an error, and after the signing request
\* if there was one; when GetFinalRequest returns an error no data-transfer
\* request is sent and MakeRequest returns that same error; one operation
\* sends at most one signing request and at most one data-transfer request.
C12_ResolveThenTransferOnce ==
    \A c \in Active :
        /\ Cardinality(SentOf(call[c], "signing")) <= 1
        /\ Cardinality(SentOf(call[c], "transfer")) <= 1
        /\ \A i \in SentOf(call[c], "transfer") :
               /\ ThroughMakeRequest(call[c])
               /\ call[c].gfr.kind = "return"
               /\ call[c].gfr.err = NoError
               /\ \A j \in SentOf(call[c], "signing") : j < i
        /\ (ThroughMakeRequest(call[c]) /\ call[c].gfr.err # NoError)
           => /\ SentOf(call[c], "transfer") = {}
              /\ call[c].pc = "done"
              /\ call[c].entry = "MakeRequest" => call[c].result.err = call[c].gfr.err

\* MakeRequest returned the error of a refused signing exchange
C12_Witness ==
    \E c \in Active :
        /\ call[c].entry = "MakeRequest"
        /\ SentOf(call[c], "signing") # {}
        /\ call[c].gfr.err.type = "BlobsInternalError"
        /\ call[c].result.err = call[c].gfr.err
        /\ call[c].pc = "done"

\* the values the request req carries under the header name
ValuesOf(req, name) ==
    IF CanonicalMIMEHeaderKey(name) \in DOMAIN req.Header
    THEN req.Header[CanonicalMIMEHeaderKey(name)]
    ELSE {}

\* the values the caller's options.Headers give under the header name,
\* whatever the case of the name they are under
CallerValues(options, name) ==
    {options.Headers[k] : k \in {k2 \in DOMAIN options.Headers :
                                    CanonicalMIMEHeaderKey(k2) = CanonicalMIMEHeaderKey(name)}}

PutCacheControl == "max-age=0, stale-while-revalidate=60"

\* C13: every data-transfer request MakeRequest sends for a PUT carries
\* cache-control: max-age=0, stale-while-revalidate=60; for GET, HEAD and
\* DELETE the only cache-control values on the request are the caller's own.
C13_PutCarriesCacheControl ==
    \A c \in Active : \A i \in SentOf(call[c], "transfer") :
        IF call[c].options.Method = HTTPMethodPut
        THEN PutCacheControl \in ValuesOf(call[c].sent[i], HdrCacheControl)
        ELSE ValuesOf(call[c].sent[i], HdrCacheControl)
                 = CallerValues(call[c].options, HdrCacheControl)

\* a PUT whose data-transfer request went out after a signing exchange
C13_Witness ==
    \E c \in Active : \E i \in SentOf(call[c], "transfer") :
        /\ call[c].options.Method = HTTPMethodPut
        /\ SentOf(call[c], "signing") # {}
        /\ call[c].options.Headers = <<>>
        /\ ValuesOf(call[c].sent[i], HdrCacheControl) = {PutCacheControl}

\* the header names a signing request carries for every operation
SigningHeaderNames == {CanonicalMIMEHeaderKey(HdrAuthorization), CanonicalMIMEHeaderKey(HdrAccept)}

\* C15: when an operation supplies non-empty metadata, the signing request
\* carries a metadata header, and after a successful signing exchange of a
\* PUT the headers GetFinalRequest returns carry it again; with no metadata
\* no further header is sent.
C15_MetadataHeaderSent ==
    \A c \in Active :
        /\ \A i \in SentOf(call[c], "signing") :
               (call[c].options.Metadata # {})
               = (DOMAIN call[c].sent[i].Header # SigningHeaderNames)
        /\ (/\ SentOf(call[c], "signing") # {}
            /\ call[c].options.Method = HTTPMethodPut
            /\ call[c].gfr.kind = "return"
            /\ call[c].gfr.err = NoError)
           => (call[c].options.Metadata # {}) = (DOMAIN call[c].gfr.headers # {})

\* the entry of the PUT that MakeRequest sets itself
IsForcedEntry(options, name) == options.Method = HTTPMethodPut /\ name = HdrCacheControl

\* the values the map headers gives under the names that differ from name
\* only in the case of their letters
ValuesUnderOtherCase(headers, name) ==
    {headers[k] : k \in {k2 \in DOMAIN headers :
                            k2 # name /\ CanonicalMIMEHeaderKey(k2) = CanonicalMIMEHeaderKey(name)}}

\* C19: the headers of the data-transfer request are the headers
\* GetFinalRequest returned, overridden by options.Headers under identical
\* names; for a PUT cache-control is max-age=0, stale-while-revalidate=60
\* whatever the caller gave under cache-control; the headers the caller did
\* not name are as resolved.
C19_CallerOverridesResolved ==
    \A c \in Active : \A i \in SentOf(call[c], "transfer") :
        /\ \A n \in DOMAIN call[c].options.Headers :
               IF IsForcedEntry(call[c].options, n)
               THEN /\ PutCacheControl \in ValuesOf(call[c].sent[i], n)
                    /\ call[c].options.Headers[n] \notin
                           ValuesOf(call[c].sent[i], n)
                           \ ValuesUnderOtherCase(call[c].options.Headers, n)
               ELSE call[c].options.Headers[n] \in ValuesOf(call[c].sent[i], n)
        /\ \A n \in DOMAIN call[c].gfr.headers :
               IF n \in DOMAIN call[c].options.Headers
               THEN call[c].gfr.headers[n] = call[c].options.Headers[n]
                    \/ call[c].gfr.headers[n] \notin ValuesOf(call[c].sent[i], n)
               ELSE call[c].gfr.headers[n] \in ValuesOf(call[c].sent[i], n)
        /\ \A n \in DOMAIN call[c].sent[i].Header :
               call[c].sent[i].Header[n]
               \subseteq CallerValues(call[c].options, n)
                         \cup {call[c].gfr.headers[k] : k \in {k2 \in DOMAIN call[c].gfr.headers :
                                                                  CanonicalMIMEHeaderKey(k2) = n}}
                         \cup {v \in {PutCacheControl} :
                                  /\ call[c].options.Method = HTTPMethodPut
                                  /\ n = CanonicalMIMEHeaderKey(HdrCacheControl)}

\* a PUT of a whole store whose caller gave its own authorization and its
\* own cache-control: the request has the caller's authorization and the
\* cache-control of MakeRequest
C19_Witness ==
    \E c \in Active : \E i \in SentOf(call[c], "transfer") :
        /\ call[c].options.Method = HTTPMethodPut
        /\ HdrAuthorization \in DOMAIN call[c].gfr.headers
        /\ DOMAIN call[c].options.Headers = {HdrAuthorization, HdrCacheControl}
        /\ ValuesOf(call[c].sent[i], HdrAuthorization) = {"Bearer other"}
        /\ ValuesOf(call[c].sent[i], HdrCacheControl) = {PutCacheControl}

\* GetFinalRequest returned a URL and no error
Resolved(cl) == cl.gfr.kind = "return" /\ cl.gfr.err = NoError

\* C20: after a successful signing exchange the headers GetFinalRequest
\* returns have no authorization entry, and the data-transfer request then
\* carries under authorization only what the caller put in options.Headers;
\* where GetFinalRequest returns without a signing exchange (list, HEAD,
\* DELETE) the returned headers hold authorization: Bearer {token}.
C20_TokenOnlyWithoutSigning ==
    \A c \in Active :
        Resolved(call[c])
        => IF SentOf(call[c], "signing") # {}
           THEN /\ \A n \in DOMAIN call[c].gfr.headers :
                       CanonicalMIMEHeaderKey(n) # CanonicalMIMEHeaderKey(HdrAuthorization)
                /\ \A i \in SentOf(call[c], "transfer") :
                       ValuesOf(call[c].sent[i], HdrAuthorization)
                       = CallerValues(call[c].options, HdrAuthorization)
           ELSE /\ HdrAuthorization \in DOMAIN call[c].gfr.headers
                /\ call[c].gfr.headers[HdrAuthorization] = "Bearer " \o call[c].recv.Token

\* a GET sent after its signing exchange with no authorization, the caller
\* having given none
C20_Witness ==
    \E c \in Active : \E i \in SentOf(call[c], "transfer") :
        /\ SentOf(call[c], "signing") # {}
        /\ call[c].options.Method = HTTPMethodGet
        /\ call[c].signRes.StatusCode = 200
        /\ call[c].options.Headers = <<>>
        /\ ValuesOf(call[c].sent[i], HdrAuthorization) = {}

\* the call is a Store.Get that has returned
GetReturned(cl) == cl.entry = "Get" /\ cl.pc = "done" /\ cl.result.kind = "return"

\* the data-transfer round trip of the call came back with an error and no
\* response
TransferFailedInTransport(cl) ==
    SentOf(cl, "transfer") # {} /\ cl.pc = "done" /\ cl.transferRes.nil

\* C18: Store.Get returns the body and no error for a data-transfer response
\* with status 200, neither body nor error for status 404, and for every
\* other status no body and the BlobsInternalError of that response; an
\* error of MakeRequest (of the signing exchange or of the transport) is
\* returned as it is, with no body.
C18_GetClassifiesByStatus ==
    \A c \in Active :
        GetReturned(call[c])
        => IF call[c].gfr.err # NoError
           THEN call[c].result.err = call[c].gfr.err /\ call[c].result.body = NilBody
           ELSE IF TransferFailedInTransport(call[c])
           THEN call[c].result.err = TransportError /\ call[c].result.body = NilBody
           ELSE IF call[c].transferRes.StatusCode = 200
           THEN /\ call[c].result.err = NoError
                /\ call[c].result.body = call[c].transferRes.Body
           ELSE IF call[c].transferRes.StatusCode = 404
           THEN call[c].result.err = NoError /\ call[c].result.body = NilBody
           ELSE /\ call[c].result.err = NewBlobsInternalError(call[c].transferRes)
                /\ call[c].result.err.type = "BlobsInternalError"
                /\ call[c].result.body = NilBody

\* a Store.Get whose data transfer was answered 500
C18_Witness ==
    \E c \in Active :
        /\ GetReturned(call[c])
        /\ SentOf(call[c], "transfer") # {}
        /\ call[c].transferRes.StatusCode = 500
        /\ call[c].result.err.type = "BlobsInternalError"
        /\ call[c].result.body = NilBody

\* the call has built its URL
HasBuiltURL(cl) == cl.sent # <<>> \/ cl.gfr.kind = "return"

\* the calls cl and dl are the same operation on the same Client up to the
\* consistency they ask for
SameButConsistency(cl, dl) ==
    /\ cl.recv = dl.recv
    /\ [cl.options EXCEPT !.Consistency = "nil"] = [dl.options EXCEPT !.Consistency = "nil"]

\* C16: the consistency of an operation is its own when it gives one and the
\* Client's otherwise; on a Client with both edge URLs, two operations alike
\* but for that consistency, one eventual and one strong, resolve to
\* different URLs, on EdgeURL and on UncachedEdgeURL.
C16_ConsistencySelectsBase ==
    \A c, d \in DOMAIN call :
        (/\ HasBuiltURL(call[c]) /\ HasBuiltURL(call[d])
         /\ SameButConsistency(call[c], call[d])
         /\ call[c].recv.EdgeURL # <<>> /\ call[c].recv.UncachedEdgeURL # <<>>
         /\ EffectiveConsistency(call[c]) = ConsistencyModeEventual
         /\ EffectiveConsistency(call[d]) = ConsistencyModeStrong)
        => /\ BuiltURL(call[c]) # BuiltURL(call[d])
           /\ HasPrefix(BuiltURL(call[c]), call[c].recv.EdgeURL)
           /\ HasPrefix(BuiltURL(call[d]), call[d].recv.UncachedEdgeURL)

\* what the call cl holds is what its operation gives when it runs alone,
\* start being GetFinalRequest run on its receiver and options up to the
\* round trip
AgreesWithRunAlone(cl, start) ==
    IF start.kind = "return"
    THEN /\ SentOf(cl, "signing") = {}
         /\ cl.gfr.url = start.ret.url
         /\ cl.gfr.headers = start.ret.headers
    ELSE /\ start.kind = "roundtrip"
         /\ cl.sent[1] = start.req
         /\ cl.pc # "signing"
            => cl.gfr = GetFinalRequestResume(start.req.URL, cl.signRes, NoError)

\* the calls cl and dl are the same operation with the same answer to its
\* signing request, if it has one
SameOperation(cl, dl) ==
    /\ cl.recv = dl.recv
    /\ cl.options = dl.options
    /\ (cl.pc = "signing") = (dl.pc = "signing")
    /\ cl.signRes = dl.signRes

\* a step of an operation of caller c
StepOf(c) == call'[c] # call[c]

\* caller c starts a call
Starts(c) == call[c].pc = "idle" /\ call'[c].pc # "idle"

\* no step of an operation writes the Client, the Store or the call of
\* another caller; a NewStore gives the Store the value of the Client
\* passed, and a change of the program's Client leaves the Store alone; a
\* call runs on the Store's Client (Store.Get) or on the program's, and
\* keeps its receiver and options to its end
NoSharedWrite ==
    /\ \A c \in DOMAIN call :
           StepOf(c) => /\ client' = client /\ store' = store /\ storeErr' = storeErr
                        /\ \A d \in DOMAIN call \ {c} : call'[d] = call[d]
    /\ client' # client => store' = store /\ call' = call
    /\ store' # store => store'.nil \/ store'.Client = client
    /\ \A c \in DOMAIN call :
           /\ (Starts(c) /\ call'[c].entry = "Get") => call'[c].recv = store.Client
           /\ (Starts(c) /\ call'[c].entry # "Get") => call'[c].recv = client
           /\ (call[c].pc # "idle" /\ call'[c].pc # "idle")
              => /\ call'[c].recv = call[c].recv
                 /\ call'[c].options = call[c].options

HandlerRuns == "handler" \in DOMAIN call /\ call["handler"].pc # "idle"

\* C21: whatever store.Get("nails") gives (a body, the not-found result or
\* an error), handler returns a response or an error to its caller: the
\* process is never ended and the goroutine never panics; without the Lambda
\* context handler returns a 503 response, request.Blobs is not decoded and
\* no store is made.
C21_HandlerAlwaysReturns ==
    HandlerRuns
    => /\ ~exited
       /\ call["handler"].pc = "done"
          => /\ call["handler"].ret.kind = "return"
             /\ ~call["handler"].ret.res.nil \/ call["handler"].ret.err # NoError
       /\ (call["handler"].pc = "done" /\ ~call["handler"].hasContext)
          => /\ call["handler"].ret.res.StatusCode = 503
             /\ ~call["handler"].decoded
             /\ ~storeArg.called

====
